---- MODULE Spec2Model ----
(***************************************************************************)
(* Model of clients/gemini_client.py: the retryable decorator, the         *)
(* MCPClient transport (connect / _connect_internal / cleanup), the        *)
(* per-query loop inlined_process_query_recursive, chat_loop and main.     *)
(*                                                                         *)
(* The program is one cooperative task, so the model is a call stack of    *)
(* frames plus a control signal `sig` that says whether the top frame is   *)
(* running, or is being handed a return value or a raised exception.       *)
(***************************************************************************)
EXTENDS Integers, Sequences, FiniteSets, TLC

VARIABLES
    stack,                  \* call stack, bottom first
    sig,                    \* control signal delivered to the top frame
    sse_stream_context,     \* self._sse_stream_context
    sse_stream,             \* self.sse_stream
    mcp_session_context,    \* self._mcp_session_context
    mcp_session,            \* self.mcp_session
    exit_stack,             \* resources registered on self.exit_stack
    stop_event,             \* self._stop_event
    live,                   \* resources open in the environment, per kind
    content_history,        \* self.agent.content_history
    invocations,            \* tool names sent to the remote call_tool
    exit_code               \* process exit status, "running" until the end

vars == <<stack, sig, sse_stream_context, sse_stream, mcp_session_context,
          mcp_session, exit_stack, stop_event, live, content_history,
          invocations, exit_code>>

transport == <<sse_stream_context, sse_stream, mcp_session_context,
               mcp_session, exit_stack, stop_event, live>>

\* ------------------------------------------------------------------ bounds
\* Depth of nested wrapper activations at which the interpreter raises
\* RecursionError.
RecursionLimit == 2
\* Largest max_retries given to a wrapped operation other than connect.
MaxN == 3
\* The model is not called again once the log holds this many entries.
MaxLog == 3
\* Longest list of parts in one candidate.
MaxParts == 2

\* --------------------------------------------------------------- constants
\* @retryable(max_retries=5, delay=1) on MCPClient.connect
ConnectMaxRetries == 5

None == "None"

\* The default connection_errors tuple of retryable.
connection_errors ==
    {"ReadError", "WriteError", "RemoteProtocolError", "ConnectError",
     "ClosedResourceError", "ConnectionError"}

\* Exceptions the remote side can make a transport call raise: two members
\* of connection_errors and one exception outside it.
TransportFaults == {"ClosedResourceError", "ConnectError", "RuntimeError"}

\* Exceptions raised while a connection is set up or torn down: one member
\* of connection_errors and one exception outside it.
ConnectFaults == {"ConnectError", "RuntimeError"}

\* Classes that derive from BaseException but not from Exception.
BaseOnly == {"KeyboardInterrupt", "SystemExit"}

IsException(e) == e \notin BaseOnly

\* ------------------------------------------------------------------ values
PyTrue  == [t |-> "bool", b |-> TRUE,  msg |-> <<>>]
PyNone  == [t |-> "none", b |-> FALSE, msg |-> <<>>]
PyStr(m) == [t |-> "str", b |-> FALSE, msg |-> m]
\* Result of a wrapped operation other than connect.
OpResult == PyStr(<<"result">>)
\* What the decorated function returns when it does not raise.
SuccessValue(func) == IF func = "connect" THEN PyTrue ELSE OpResult

\* Python truth value of a returned object.
Truthy(v) ==
    CASE v.t = "bool" -> v.b
      [] v.t = "str"  -> v.msg # <<>>
      [] OTHER        -> FALSE

\* f"{operation_name} failed after {retries} attempts: {e}"
FailedAfter(op, n, e) == PyStr(<<op, "failed after", n, "attempts", e>>)
\* f"Reconnect failed for {operation_name}"
ReconnectFailed(op) == PyStr(<<"Reconnect failed for", op>>)
\* f"Error processing {operation_name}: {error}"
ErrorProcessing(op, e) == PyStr(<<"Error processing", op, e>>)

IsFailureString(v) ==
    /\ v.t = "str"
    /\ v.msg # <<>>
    /\ v.msg[1] \in {"Reconnect failed for", "Error processing"}
       \/ (Len(v.msg) > 1 /\ v.msg[2] = "failed after")

\* ------------------------------------------------------------------ frames
NoFrame == [fn |-> "none"]

WrapperFrame(func, n) ==
    [fn |-> "wrapper", pc |-> "try", func |-> func, max_retries |-> n,
     retries |-> 0, attempts |-> 0, reconnects |-> 0, sleeps |-> 0,
     outcomes |-> <<>>, lastRecon |-> "none"]

ConnectFrame == [fn |-> "connect", pc |-> "cleanup", prior |-> FALSE]
OpFrame == [fn |-> "op", pc |-> "body"]
\* A caller of the client.  cleanups counts the calls of cleanup() it has
\* made in succession (0, 1 or 2), first is the transport state the first
\* of them ended in, raised2 whether the second of them raised.
HarnessFrame ==
    [fn |-> "harness", pc |-> "idle", cleanups |-> 0, first |-> None,
     raised2 |-> FALSE]

Top == stack[Len(stack)]
Pop == SubSeq(stack, 1, Len(stack) - 1)
SetTop(f) == [stack EXCEPT ![Len(stack)] = f]
Push(f, g) == Append(SetTop(f), g)

\* Number of wrapper activations on the stack.
Depth == Cardinality({i \in 1..Len(stack) : stack[i].fn = "wrapper"})

\* ----------------------------------------------------------------- signals
Run == [k |-> "run", v |-> PyNone, e |-> None, origin |-> None,
        src |-> None, fr |-> NoFrame]
Ret(v, src, fr) == [k |-> "ret", v |-> v, e |-> None, origin |-> None,
                    src |-> src, fr |-> fr]
Exc(e, origin, src, fr) == [k |-> "exc", v |-> PyNone, e |-> e,
                            origin |-> origin, src |-> src, fr |-> fr]

Running(fn, pc) ==
    /\ stack # <<>>
    /\ sig.k = "run"
    /\ Top.fn = fn
    /\ Top.pc = pc

Returned(fn, pc) ==
    /\ stack # <<>>
    /\ sig.k = "ret"
    /\ Top.fn = fn
    /\ Top.pc = pc

Raised(fn, pc) ==
    /\ stack # <<>>
    /\ sig.k = "exc"
    /\ Top.fn = fn
    /\ Top.pc = pc

\* --------------------------------------------------------------- transport
NoLive == [stream |-> 0, session |-> 0]

RECURSIVE Release(_, _)
\* AsyncExitStack.aclose(): every registered resource is exited, last first.
Release(l, es) ==
    IF es = <<>> THEN l
    ELSE LET r == es[Len(es)]
         IN Release([l EXCEPT ![r] = l[r] - 1], SubSeq(es, 1, Len(es) - 1))

\* A handle is held: stream and session are open and recorded in the fields.
Connected ==
    /\ sse_stream # None
    /\ mcp_session # None
    /\ live = [stream |-> 1, session |-> 1]

\* cleanup() without the aclose() of line 206: nothing is released.
cleanup_without_aclose(raised) ==
    /\ stop_event' = TRUE
    /\ live' = live
    /\ exit_stack' = <<>>
    /\ IF raised
       THEN UNCHANGED <<mcp_session_context, mcp_session,
                        sse_stream_context, sse_stream>>
       ELSE /\ mcp_session_context' = None
            /\ mcp_session' = None
            /\ sse_stream_context' = None
            /\ sse_stream' = None

\* MCPClient.cleanup().  `raised` is whether exit_stack.aclose() raised.
cleanup(raised) ==
    /\ stop_event' = TRUE
    /\ live' = Release(live, exit_stack)
    /\ IF raised
       THEN /\ exit_stack' = <<>>
            /\ UNCHANGED <<mcp_session_context, mcp_session,
                           sse_stream_context, sse_stream>>
       ELSE /\ exit_stack' = <<>>
            /\ mcp_session_context' = None
            /\ mcp_session' = None
            /\ sse_stream_context' = None
            /\ sse_stream' = None

\* _connect_internal, line 179-180: cleanup() returned, fresh exit stack.
ConnectCleanup ==
    /\ Running("connect", "cleanup")
    /\ cleanup(FALSE)
    /\ stack' = SetTop([Top EXCEPT !.pc = "open_stream",
                                   !.prior = Connected])
    /\ UNCHANGED <<sig, content_history, invocations, exit_code>>

\* cleanup() raised out of aclose(); connect's except clause re-raises.
ConnectCleanupRaises ==
    /\ Running("connect", "cleanup")
    /\ exit_stack # <<>>
    /\ \E e \in ConnectFaults :
          sig' = Exc(e, "cleanup", "connect", Top)
    /\ cleanup(TRUE)
    /\ stack' = Pop
    /\ UNCHANGED <<content_history, invocations, exit_code>>

\* Lines 182-183: sse_client(...) entered on the exit stack.
OpenStream ==
    /\ Running("connect", "open_stream")
    /\ sse_stream_context' = "sse_client"
    /\ sse_stream' = "stream"
    /\ exit_stack' = Append(exit_stack, "stream")
    /\ live' = [live EXCEPT !.stream = @ + 1]
    /\ stack' = SetTop([Top EXCEPT !.pc = "open_session"])
    /\ UNCHANGED <<sig, mcp_session_context, mcp_session, stop_event,
                   content_history, invocations, exit_code>>

OpenStreamFails ==
    /\ Running("connect", "open_stream")
    /\ sse_stream_context' = "sse_client"
    /\ \E e \in ConnectFaults :
          sig' = Exc(e, "open_stream", "connect", Top)
    /\ stack' = Pop
    /\ UNCHANGED <<sse_stream, mcp_session_context, mcp_session, exit_stack,
                   stop_event, live, content_history, invocations, exit_code>>

\* Lines 185-186: ClientSession(...) entered on the exit stack.
OpenSession ==
    /\ Running("connect", "open_session")
    /\ mcp_session_context' = "ClientSession"
    /\ mcp_session' = "session"
    /\ exit_stack' = Append(exit_stack, "session")
    /\ live' = [live EXCEPT !.session = @ + 1]
    /\ stack' = SetTop([Top EXCEPT !.pc = "initialize"])
    /\ UNCHANGED <<sig, sse_stream_context, sse_stream, stop_event,
                   content_history, invocations, exit_code>>

OpenSessionFails ==
    /\ Running("connect", "open_session")
    /\ mcp_session_context' = "ClientSession"
    /\ \E e \in ConnectFaults :
          sig' = Exc(e, "open_session", "connect", Top)
    /\ stack' = Pop
    /\ UNCHANGED <<sse_stream_context, sse_stream, mcp_session, exit_stack,
                   stop_event, live, content_history, invocations, exit_code>>

\* Line 188 and connect's `return True`.
Initialize ==
    /\ Running("connect", "initialize")
    /\ sig' = Ret(SuccessValue("connect"), "connect", Top)
    /\ stack' = Pop
    /\ UNCHANGED <<transport, content_history, invocations, exit_code>>

InitializeFails ==
    /\ Running("connect", "initialize")
    /\ \E e \in ConnectFaults :
          sig' = Exc(e, "initialize", "connect", Top)
    /\ stack' = Pop
    /\ UNCHANGED <<transport, content_history, invocations, exit_code>>

ConnectNext ==
    \/ ConnectCleanup
    \/ ConnectCleanupRaises
    \/ OpenStream
    \/ OpenStreamFails
    \/ OpenSession
    \/ OpenSessionFails
    \/ Initialize
    \/ InitializeFails

\* --------------------------------------------------------------- retryable
FuncFrame(func) == IF func = "connect" THEN ConnectFrame ELSE OpFrame

\* retryable_except with its `except Exception` clause retrying as well:
\* every exception is treated as a connection error.
retryable_except_retry_all(f, e) ==
    LET r == f.retries + 1
    IN IF r >= f.max_retries
       THEN [act |-> "return", retries |-> r,
             val |-> FailedAfter(f.func, r, e)]
       ELSE [act |-> "reconnect", retries |-> r, val |-> PyNone]

\* What the two except clauses of wrapper decide for exception e raised by
\* the attempt: the new retries count and what happens next.
retryable_except(f, e) ==
    IF e \in connection_errors
    THEN LET r == f.retries + 1
         IN IF r >= f.max_retries
            THEN [act |-> "return", retries |-> r,
                  val |-> FailedAfter(f.func, r, e)]
            ELSE [act |-> "reconnect", retries |-> r, val |-> PyNone]
    ELSE IF IsException(e)
         THEN [act |-> "return", retries |-> f.retries,
               val |-> ErrorProcessing(f.func, e)]
         ELSE [act |-> "raise", retries |-> f.retries, val |-> PyNone]

\* Line 119: `return await func(...)`, the attempt's value is the result.
retryable_returned(f, v) == [act |-> "return", val |-> v]

\* retryable_reconnected with the test on connect()'s value inverted.
retryable_reconnected_inverted(f, v) ==
    IF ~Truthy(v)
    THEN [act |-> "retry", val |-> PyNone]
    ELSE [act |-> "return", val |-> ReconnectFailed(f.func)]

\* Lines 128-135: what wrapper does with the value self.connect() returned.
retryable_reconnected(f, v) ==
    IF Truthy(v)
    THEN [act |-> "retry", val |-> PyNone]
    ELSE [act |-> "return", val |-> ReconnectFailed(f.func)]

ErrClass(e) == IF e \in connection_errors THEN "rec" ELSE "other"

\* Line 119: the attempt starts.
WrapperTry ==
    /\ Running("wrapper", "try")
    /\ stack' = Push([Top EXCEPT !.pc = "in_try", !.attempts = @ + 1],
                     FuncFrame(Top.func))
    /\ UNCHANGED <<sig, transport, content_history, invocations, exit_code>>

\* Line 119: the attempt returned, wrapper returns its value.
WrapperReturn ==
    /\ Returned("wrapper", "in_try")
    /\ LET r == retryable_returned(Top, sig.v)
           f == [Top EXCEPT !.outcomes = Append(@, "ok")]
       IN IF r.act = "return"
          THEN /\ sig' = Ret(r.val, "wrapper", f)
               /\ stack' = Pop
          ELSE /\ sig' = Run
               /\ stack' = SetTop([f EXCEPT !.pc = "try"])
    /\ UNCHANGED <<transport, content_history, invocations, exit_code>>

\* Lines 120-125 and 136-139: an except clause returns an error string.
WrapperTerminal ==
    /\ Raised("wrapper", "in_try")
    /\ LET r == retryable_except(Top, sig.e)
       IN /\ r.act = "return"
          /\ sig' = Ret(r.val, "wrapper",
                        [Top EXCEPT !.retries = r.retries,
                                    !.outcomes = Append(@, ErrClass(sig.e))])
    /\ stack' = Pop
    /\ UNCHANGED <<transport, content_history, invocations, exit_code>>

\* Lines 120-128: recoverable fault below the limit, self.connect() called.
WrapperReconnect ==
    /\ Raised("wrapper", "in_try")
    /\ Depth < RecursionLimit
    /\ LET r == retryable_except(Top, sig.e)
       IN /\ r.act = "reconnect"
          /\ stack' = Push([Top EXCEPT !.retries = r.retries,
                                       !.outcomes = Append(@, ErrClass(sig.e)),
                                       !.reconnects = @ + 1,
                                       !.pc = "in_reconnect"],
                           WrapperFrame("connect", ConnectMaxRetries))
    /\ sig' = Run
    /\ UNCHANGED <<transport, content_history, invocations, exit_code>>

\* The call of self.connect() at line 128 exceeds the interpreter's
\* recursion limit.  RecursionError is raised either at the call itself,
\* inside this wrapper's except clause, or inside the callee's try block,
\* where the callee's `except Exception` turns it into an error string.
WrapperRecursionError ==
    /\ Raised("wrapper", "in_try")
    /\ Depth >= RecursionLimit
    /\ LET r == retryable_except(Top, sig.e)
           f == [Top EXCEPT !.retries = r.retries,
                            !.outcomes = Append(@, ErrClass(sig.e)),
                            !.reconnects = @ + 1,
                            !.pc = "in_reconnect"]
           callee == [WrapperFrame("connect", ConnectMaxRetries)
                        EXCEPT !.pc = "in_try", !.attempts = 1,
                               !.outcomes = <<"other">>]
       IN /\ r.act = "reconnect"
          /\ \/ /\ sig' = Exc("RecursionError", "wrapper", "wrapper", f)
                /\ stack' = Pop
             \/ /\ sig' = Ret(ErrorProcessing("connect", "RecursionError"),
                              "wrapper", callee)
                /\ stack' = SetTop(f)
    /\ UNCHANGED <<transport, content_history, invocations, exit_code>>

\* Lines 128-135: self.connect() returned.
WrapperReconnected ==
    /\ Returned("wrapper", "in_reconnect")
    /\ LET r == retryable_reconnected(Top, sig.v)
           rc == IF sig.v = PyTrue THEN "True" ELSE "failed"
       IN IF r.act = "retry"
          THEN /\ stack' = SetTop([Top EXCEPT !.pc = "try",
                                              !.sleeps = @ + 1,
                                              !.lastRecon = rc])
               /\ sig' = Run
          ELSE /\ stack' = Pop
               /\ sig' = Ret(r.val, "wrapper", [Top EXCEPT !.lastRecon = rc])
    /\ UNCHANGED <<transport, content_history, invocations, exit_code>>

\* self.connect() raised inside wrapper's except clause: nothing catches it.
WrapperReconnectRaised ==
    /\ Raised("wrapper", "in_reconnect")
    /\ sig' = Exc(sig.e, sig.origin, "wrapper",
                  [Top EXCEPT !.lastRecon = "raised"])
    /\ stack' = Pop
    /\ UNCHANGED <<transport, content_history, invocations, exit_code>>

WrapperNext ==
    \/ WrapperTry
    \/ WrapperReturn
    \/ WrapperTerminal
    \/ WrapperReconnect
    \/ WrapperRecursionError
    \/ WrapperReconnected
    \/ WrapperReconnectRaised

\* ------------------------------------------- a wrapped operation, in general
\* The decorated func of retryable when it is not connect: one remote call
\* that returns or raises.
OpReturns ==
    /\ Running("op", "body")
    /\ sig' = Ret(SuccessValue("op"), "op", Top)
    /\ stack' = Pop
    /\ UNCHANGED <<transport, content_history, invocations, exit_code>>

OpRaises ==
    /\ Running("op", "body")
    /\ \E e \in TransportFaults : sig' = Exc(e, "op", "op", Top)
    /\ stack' = Pop
    /\ UNCHANGED <<transport, content_history, invocations, exit_code>>

\* A caller invokes a decorated method of the client.
HarnessCall ==
    /\ Running("harness", "idle")
    /\ LET caller == [Top EXCEPT !.pc = "in_call", !.cleanups = 0,
                                 !.first = None, !.raised2 = FALSE]
       IN \/ stack' = Push(caller,
                           WrapperFrame("connect", ConnectMaxRetries))
          \/ \E n \in 1..MaxN :
                stack' = Push(caller, WrapperFrame("op", n))
    /\ UNCHANGED <<sig, transport, content_history, invocations, exit_code>>

\* The decorated method returned or raised; the caller goes on.
HarnessResume ==
    /\ stack # <<>>
    /\ Top.fn = "harness"
    /\ Top.pc = "in_call"
    /\ sig.k \in {"ret", "exc"}
    /\ sig' = Run
    /\ stack' = SetTop([Top EXCEPT !.pc = "idle"])
    /\ UNCHANGED <<transport, content_history, invocations, exit_code>>

\* The state of the transport as a caller can observe it.
TransportState(ssc, ss, msc, ms, es, l) ==
    [sse_stream_context |-> ssc, sse_stream |-> ss,
     mcp_session_context |-> msc, mcp_session |-> ms,
     exit_stack |-> es, live |-> l]

\* The caller's frame after a call of cleanup() that ended in state t.
AfterCleanup(f, t, raised) ==
    IF f.cleanups = 1
    THEN [f EXCEPT !.cleanups = 2, !.raised2 = raised]
    ELSE [f EXCEPT !.cleanups = 1, !.first = t, !.raised2 = FALSE]

\* A caller invokes cleanup(), lines 202-211; when aclose() raises, the
\* caller takes the exception and goes on.
HarnessCleanup ==
    /\ Running("harness", "idle")
    /\ \E raised \in BOOLEAN :
          /\ raised => exit_stack # <<>>
          /\ cleanup(raised)
          /\ stack' =
                SetTop(AfterCleanup(
                          Top,
                          TransportState(sse_stream_context', sse_stream',
                                         mcp_session_context', mcp_session',
                                         exit_stack', live'),
                          raised))
    /\ UNCHANGED <<sig, content_history, invocations, exit_code>>

\* -------------------------------------------------------------------- text
\* Strings the program inspects are sequences of characters.
IsSpace(c) == c = " "

RECURSIVE LStrip(_)
LStrip(s) ==
    IF s # <<>> /\ IsSpace(Head(s)) THEN LStrip(Tail(s)) ELSE s

RECURSIVE RStrip(_)
RStrip(s) ==
    IF s # <<>> /\ IsSpace(s[Len(s)])
    THEN RStrip(SubSeq(s, 1, Len(s) - 1))
    ELSE s

\* str.strip()
Strip(s) == RStrip(LStrip(s))

LowerChar(c) ==
    CASE c = "Q" -> "q"
      [] c = "U" -> "u"
      [] c = "I" -> "i"
      [] c = "T" -> "t"
      [] OTHER   -> c

\* str.lower()
Lower(s) == [i \in 1..Len(s) |-> LowerChar(s[i])]

quit == <<"q", "u", "i", "t">>

\* Lines a user types at a prompt.
Inputs == {<<" ">>, <<" ", "l", "s">>, <<"Q", "u", "i", "T", " ">>}

\* Answers a user types at the clarification prompt.
Answers == {<<"y", "e", "s">>}

\* Texts of text parts the model returns: blanks only, or an answer.
PartTexts == {<<" ">>, <<"o", "k">>}

\* Payloads the remote call_tool returns.
ToolResults == {"listing", "asked"}

\* What the remote endpoint returns for the tool named n.
tool_result(n) == IF n = "ask" THEN "asked" ELSE "listing"

\* Function calls the model returns.
FunctionCalls ==
    {[name |-> "list_dir", args |-> "path"],
     [name |-> "ask", args |-> "question"]}

PartSet ==
    {[kind |-> "function_call", name |-> c.name, args |-> c.args,
      text |-> <<>>] : c \in FunctionCalls}
    \cup
    {[kind |-> "text", name |-> None, args |-> None, text |-> t] :
        t \in PartTexts}

\* candidate.content.parts of a response that has parts.
Candidates ==
    UNION {[1..n -> PartSet] : n \in 1..MaxParts}

\* ------------------------------------------------------- conversation log
TextEntry(role, t) ==
    [role |-> role, kind |-> "text", name |-> None, text |-> t]
FunctionCallEntry(p) ==
    [role |-> "model", kind |-> "function_call", name |-> p.name,
     text |-> <<>>]
FunctionResponseEntry(n, r) ==
    [role |-> "user", kind |-> "function_response", name |-> n,
     text |-> <<>>, result |-> r]
\* The fixed "Continue with the next needful action ..." entry.
Nudge == TextEntry("user", <<"Continue">>)

\* Agent.add_content
add_content(log, entry) == Append(log, entry)

\* ------------------------------------------- inlined_process_query_recursive
\* A call of the per-query loop.  base and inv0 are the lengths of the log
\* and of the list of remote invocations when the call starts; responses
\* counts the model responses received so far: 0, 1, or 2 for two or more.
ProcessFrame(q) ==
    [fn |-> "process", pc |-> "start", query |-> q, parts |-> <<>>,
     idx |-> 0, base |-> Len(content_history), inv0 |-> Len(invocations),
     responses |-> 0]

Received(f) ==
    [f EXCEPT !.responses = IF @ < 2 THEN @ + 1 ELSE @]

\* ProcessReturns with a return from the loop once a model response has
\* been worked through.
ProcessReturns_after_round(f) ==
    \/ f.pc = "start" /\ f.query = <<>>
    \/ f.pc = "generate" /\ f.responses >= 1

\* Lines 214-216 and 242: the only return of the function is the one for
\* an empty query; the `while True` loop has no break and no return.
ProcessReturns(f) == f.pc = "start" /\ f.query = <<>>

\* remote_call leaving out the invocation when the tool is "ask".
remote_call_skip_ask(inv, p, r) ==
    IF p.name = "ask"
    THEN inv
    ELSE Append(inv, [name |-> p.name, args |-> p.args, result |-> r])

\* Lines 296-299: the remote call_tool is invoked for the part's function
\* call; r is what it returns, "raised" when it raises.
remote_call(inv, p, r) ==
    Append(inv, [name |-> p.name, args |-> p.args, result |-> r])

\* Lines 302-311: the function response is logged as a user entry.
function_result(log, p, r) ==
    add_content(log, FunctionResponseEntry(p.name, r))

\* after_part without the nudge of lines 341-348.
after_part_no_nudge(log) == log

\* Lines 339-348: save_history(), then the nudge is logged.
after_part(log) == add_content(log, Nudge)

\* text_part without the test of lines 330-336: every text part is logged.
text_part_no_skip(log, p) ==
    after_part(add_content(log, TextEntry("model", p.text)))

\* Lines 327-348: a text part; an empty one is skipped by `continue`.
text_part(log, p) ==
    IF Len(Strip(p.text)) = 0
    THEN log
    ELSE after_part(add_content(log, TextEntry("model", p.text)))

\* The frame after one part of the for loop has been handled; after the
\* last one the loop goes back to the model call, the response it has just
\* worked through staying in its local variables.
NextPart(f) ==
    IF f.idx < Len(f.parts)
    THEN [f EXCEPT !.pc = "part", !.idx = @ + 1]
    ELSE [f EXCEPT !.pc = "generate", !.idx = 0]

\* Lines 214-216
ProcessEmpty ==
    /\ stack # <<>>
    /\ sig.k = "run"
    /\ Top.fn = "process"
    /\ ProcessReturns(Top)
    /\ sig' = Ret(PyNone, "process", Top)
    /\ stack' = Pop
    /\ UNCHANGED <<transport, content_history, invocations, exit_code>>

\* Lines 218-240: list_tools() returned, the query is logged.  A remote
\* call can only return on a session that is still open.
ListTools ==
    /\ Running("process", "start")
    /\ Top.query # <<>>
    /\ mcp_session # None
    /\ live.session > 0
    /\ content_history' =
          add_content(content_history, TextEntry("user", Top.query))
    /\ stack' = SetTop([Top EXCEPT !.pc = "generate"])
    /\ UNCHANGED <<sig, transport, invocations, exit_code>>

\* Line 218: list_tools() raised.
ListToolsFails ==
    /\ Running("process", "start")
    /\ Top.query # <<>>
    /\ mcp_session # None
    /\ \E e \in TransportFaults :
          sig' = Exc(e, "list_tools", "process", Top)
    /\ stack' = Pop
    /\ UNCHANGED <<transport, content_history, invocations, exit_code>>

\* Line 218 or 296 with self.mcp_session None: the attribute lookup on
\* None raises AttributeError.
NoSession ==
    /\ \/ /\ Running("process", "start")
          /\ Top.query # <<>>
          /\ sig' = Exc("AttributeError", "list_tools", "process", Top)
       \/ /\ Running("process", "call_tool")
          /\ sig' = Exc("AttributeError", "call_tool", "process", Top)
    /\ mcp_session = None
    /\ stack' = Pop
    /\ UNCHANGED <<transport, content_history, invocations, exit_code>>

\* Lines 246-283: the model answered with a candidate that has parts.
Generate ==
    /\ Running("process", "generate")
    /\ Len(content_history) < MaxLog
    /\ \E ps \in Candidates :
          stack' = SetTop([Received(Top) EXCEPT !.pc = "part", !.parts = ps,
                                                !.idx = 1])
    /\ UNCHANGED <<sig, transport, content_history, invocations, exit_code>>

\* Lines 276-281: content with no parts, `continue`.
GenerateNoParts ==
    /\ Running("process", "generate")
    /\ stack' = SetTop([Received(Top) EXCEPT !.parts = <<>>, !.idx = 0])
    /\ UNCHANGED <<sig, transport, content_history, invocations, exit_code>>

\* Lines 272-276: content is None, the message is printed and then
\* candidate.content.parts is read on None.
GenerateNoContent ==
    /\ Running("process", "generate")
    /\ sig' = Exc("AttributeError", "no_content", "process", Top)
    /\ stack' = Pop
    /\ UNCHANGED <<transport, content_history, invocations, exit_code>>

\* Lines 256-263: generate_content raised; code 400 is replaced by
\* Exception("Token limit exceeded..."), anything else is re-raised.
GenerateFails ==
    /\ Running("process", "generate")
    /\ \E code \in {400, 500} :
          sig' = Exc(IF code = 400 THEN "Exception" ELSE "ServerError",
                     IF code = 400 THEN "generate_400" ELSE "generate",
                     "process", Top)
    /\ stack' = Pop
    /\ UNCHANGED <<transport, content_history, invocations, exit_code>>

\* Lines 284-294: a function-call part is logged as a model entry.
PartFunctionCall ==
    /\ Running("process", "part")
    /\ Top.parts[Top.idx].kind = "function_call"
    /\ content_history' =
          add_content(content_history,
                      FunctionCallEntry(Top.parts[Top.idx]))
    /\ stack' = SetTop([Top EXCEPT !.pc = "call_tool"])
    /\ UNCHANGED <<sig, transport, invocations, exit_code>>

\* Lines 296-348: call_tool returned; the result is logged.  For a tool
\* other than "ask" the history is saved and the nudge is logged at once.
CallTool ==
    /\ Running("process", "call_tool")
    /\ mcp_session # None
    /\ live.session > 0
    /\ LET p == Top.parts[Top.idx]
           r == tool_result(p.name)
           withResult == function_result(content_history, p, r)
       IN /\ invocations' = remote_call(invocations, p, r)
          /\ IF p.name = "ask"
             THEN /\ content_history' = withResult
                  /\ stack' = SetTop([Top EXCEPT !.pc = "ask"])
             ELSE /\ content_history' = after_part(withResult)
                  /\ stack' = SetTop(NextPart(Top))
    /\ UNCHANGED <<sig, transport, exit_code>>

\* Lines 296-299: call_tool raised.
CallToolFails ==
    /\ Running("process", "call_tool")
    /\ mcp_session # None
    /\ invocations' = remote_call(invocations, Top.parts[Top.idx], "raised")
    /\ \E e \in TransportFaults :
          sig' = Exc(e, "call_tool", "process", Top)
    /\ stack' = Pop
    /\ UNCHANGED <<transport, content_history, exit_code>>

\* Lines 313-348: the clarification prompt returned an answer.
AskAnswer ==
    /\ Running("process", "ask")
    /\ \E a \in Answers :
          content_history' =
             after_part(add_content(content_history, TextEntry("user", a)))
    /\ stack' = SetTop(NextPart(Top))
    /\ UNCHANGED <<sig, transport, invocations, exit_code>>

\* Lines 315-318: end of input or an interrupt at the clarification prompt.
AskInterrupt ==
    /\ Running("process", "ask")
    /\ \E e \in {"EOFError", "KeyboardInterrupt"} :
          sig' = Exc(e, "ask", "process", Top)
    /\ stack' = Pop
    /\ UNCHANGED <<transport, content_history, invocations, exit_code>>

\* Lines 327-348: a text part.
PartText ==
    /\ Running("process", "part")
    /\ Top.parts[Top.idx].kind = "text"
    /\ content_history' = text_part(content_history, Top.parts[Top.idx])
    /\ stack' = SetTop(NextPart(Top))
    /\ UNCHANGED <<sig, transport, invocations, exit_code>>

ProcessNext ==
    \/ ProcessEmpty
    \/ ListTools
    \/ ListToolsFails
    \/ NoSession
    \/ Generate
    \/ GenerateNoParts
    \/ GenerateNoContent
    \/ GenerateFails
    \/ PartFunctionCall
    \/ CallTool
    \/ CallToolFails
    \/ AskAnswer
    \/ AskInterrupt
    \/ PartText

\* --------------------------------------------------------------- chat_loop
ChatFrame == [fn |-> "chat_loop", pc |-> "prompt", query |-> <<>>]

\* Lines 361-370: a query other than quit is handed to the loop.
ChatQuery ==
    /\ Running("chat_loop", "prompt")
    /\ \E inp \in Inputs :
          LET query == Strip(inp)
          IN /\ Lower(query) # quit
             /\ stack' = Push([Top EXCEPT !.pc = "in_process",
                                          !.query = query],
                              ProcessFrame(query))
    /\ UNCHANGED <<sig, transport, content_history, invocations, exit_code>>

\* Lines 367-368: quit, `break`.
ChatQuit ==
    /\ Running("chat_loop", "prompt")
    /\ \E inp \in Inputs : Lower(Strip(inp)) = quit
    /\ sig' = Ret(PyNone, "chat_loop", Top)
    /\ stack' = Pop
    /\ UNCHANGED <<transport, content_history, invocations, exit_code>>

\* Lines 378-380: EOFError or KeyboardInterrupt, at the prompt or out of
\* the per-query loop, `break`.
ChatInterrupt ==
    /\ \/ Running("chat_loop", "prompt")
       \/ /\ Raised("chat_loop", "in_process")
          /\ sig.e \in {"EOFError", "KeyboardInterrupt"}
    /\ sig' = Ret(PyNone, "chat_loop", Top)
    /\ stack' = Pop
    /\ UNCHANGED <<transport, content_history, invocations, exit_code>>

\* Line 370 or 376 returned: next iteration.
ChatProcessReturned ==
    /\ \/ Returned("chat_loop", "in_process")
       \/ Returned("chat_loop", "in_resubmit")
    /\ sig' = Run
    /\ stack' = SetTop([Top EXCEPT !.pc = "prompt"])
    /\ UNCHANGED <<transport, content_history, invocations, exit_code>>

\* Lines 372-374: ClosedResourceError out of the per-query loop.
ChatClosedResource ==
    /\ Raised("chat_loop", "in_process")
    /\ sig.e = "ClosedResourceError"
    /\ sig' = Run
    /\ stack' = Push([Top EXCEPT !.pc = "in_reconnect"],
                     WrapperFrame("connect", ConnectMaxRetries))
    /\ UNCHANGED <<transport, content_history, invocations, exit_code>>

\* Line 376: connect() returned, its value is not looked at.
ChatResubmit ==
    /\ Returned("chat_loop", "in_reconnect")
    /\ sig' = Run
    /\ stack' = Push([Top EXCEPT !.pc = "in_resubmit"],
                     ProcessFrame(Top.query))
    /\ UNCHANGED <<transport, content_history, invocations, exit_code>>

\* An exception no except clause of the loop takes: any other class out of
\* line 370, and every exception raised inside the except clause itself.
ChatPropagate ==
    /\ \/ /\ Raised("chat_loop", "in_process")
          /\ sig.e \notin {"ClosedResourceError", "EOFError",
                           "KeyboardInterrupt"}
       \/ Raised("chat_loop", "in_reconnect")
       \/ Raised("chat_loop", "in_resubmit")
    /\ sig' = Exc(sig.e, sig.origin, "chat_loop", Top)
    /\ stack' = Pop
    /\ UNCHANGED <<transport, content_history, invocations, exit_code>>

ChatNext ==
    \/ ChatQuery
    \/ ChatQuit
    \/ ChatInterrupt
    \/ ChatProcessReturned
    \/ ChatClosedResource
    \/ ChatResubmit
    \/ ChatPropagate

\* -------------------------------------------------------------------- main
\* connect_failed is whether the initial connect() returned a failure
\* string; the value itself is only tested, at line 395, and not kept.
MainFrame ==
    [fn |-> "main", pc |-> "connect", connect_failed |-> FALSE,
     pending |-> Run]

\* Line 395: client.connect() is called.
MainConnect ==
    /\ Running("main", "connect")
    /\ stack' = Push([Top EXCEPT !.pc = "in_connect"],
                     WrapperFrame("connect", ConnectMaxRetries))
    /\ UNCHANGED <<sig, transport, content_history, invocations, exit_code>>

\* Lines 395-401: `if not await client.connect(): sys.exit(1)`, else the
\* chat loop starts.
MainConnected ==
    /\ Returned("main", "in_connect")
    /\ sig' = Run
    /\ IF ~Truthy(sig.v)
       THEN stack' = SetTop([Top EXCEPT !.pc = "finally",
                                        !.connect_failed =
                                           IsFailureString(sig.v),
                                        !.pending =
                                           Exc("SystemExit", "main", "main",
                                               NoFrame)])
       ELSE stack' = Push([Top EXCEPT !.pc = "in_chat",
                                      !.connect_failed =
                                         IsFailureString(sig.v)],
                          ChatFrame)
    /\ UNCHANGED <<transport, content_history, invocations, exit_code>>

\* connect() or chat_loop() raised: the finally clause runs with the
\* exception pending.
MainRaised ==
    /\ \/ Raised("main", "in_connect")
       \/ Raised("main", "in_chat")
    /\ sig' = Run
    /\ stack' = SetTop([Top EXCEPT !.pc = "finally",
                                    !.pending = [sig EXCEPT !.fr = NoFrame]])
    /\ UNCHANGED <<transport, content_history, invocations, exit_code>>

\* chat_loop() returned.
MainChatReturned ==
    /\ Returned("main", "in_chat")
    /\ sig' = Run
    /\ stack' = SetTop([Top EXCEPT !.pc = "finally"])
    /\ UNCHANGED <<transport, content_history, invocations, exit_code>>

\* Lines 408-415: status of the process for the exception, if any, that
\* leaves asyncio.run(main()): `except Exception` prints it and the script
\* ends normally; SystemExit and KeyboardInterrupt are not caught.
ExitStatus(e) ==
    IF e = None \/ IsException(e) THEN "0" ELSE "1"

\* Lines 403-405: final cleanup, then the process ends.
MainFinally ==
    /\ Running("main", "finally")
    /\ cleanup(FALSE)
    /\ sig' = IF Top.pending.k = "exc"
              THEN Exc(Top.pending.e, Top.pending.origin, "main", NoFrame)
              ELSE Ret(PyNone, "main", NoFrame)
    /\ exit_code' = ExitStatus(Top.pending.e)
    /\ stack' = SetTop([Top EXCEPT !.pc = "done"])
    /\ UNCHANGED <<content_history, invocations>>

\* Lines 403-405: the final cleanup raises; its exception replaces the
\* pending one.
MainFinallyRaises ==
    /\ Running("main", "finally")
    /\ exit_stack # <<>>
    /\ cleanup(TRUE)
    /\ \E e \in ConnectFaults :
          /\ sig' = Exc(e, "cleanup", "main", NoFrame)
          /\ exit_code' = ExitStatus(e)
    /\ stack' = SetTop([Top EXCEPT !.pc = "done"])
    /\ UNCHANGED <<content_history, invocations>>

MainNext ==
    \/ MainConnect
    \/ MainConnected
    \/ MainRaised
    \/ MainChatReturned
    \/ MainFinally
    \/ MainFinallyRaises

\* ---------------------------------------------------------- specifications
TransportInit ==
    /\ sse_stream_context = None
    /\ sse_stream = None
    /\ mcp_session_context = None
    /\ mcp_session = None
    /\ exit_stack = <<>>
    /\ stop_event = FALSE
    /\ live = NoLive

InitRetry ==
    /\ stack = <<HarnessFrame>>
    /\ sig = Run
    /\ TransportInit
    /\ content_history = <<>>
    /\ invocations = <<>>
    /\ exit_code = "running"

NextRetry ==
    \/ HarnessCall
    \/ HarnessResume
    \/ HarnessCleanup
    \/ OpReturns
    \/ OpRaises
    \/ WrapperNext
    \/ ConnectNext

SpecRetry == InitRetry /\ [][NextRetry]_vars

Init ==
    /\ stack = <<MainFrame>>
    /\ sig = Run
    /\ TransportInit
    /\ content_history = <<>>
    /\ invocations = <<>>
    /\ exit_code = "running"

Next ==
    \/ MainNext
    \/ ChatNext
    \/ ProcessNext
    \/ WrapperNext
    \/ ConnectNext

Spec == Init /\ [][Next]_vars

\* ------------------------------------------------------------- properties
Last(s) == s[Len(s)]

\* A call of a decorated method has just ended, by return or by raise;
\* sig.fr is the wrapper activation as it ended.
Completed == sig.k \in {"ret", "exc"} /\ sig.src = "wrapper"

WrapperFrames == {i \in 1..Len(stack) : stack[i].fn = "wrapper"}

IsFunctionCall(en) == en.role = "model" /\ en.kind = "function_call"

\* C1: every model-role function-call entry of the conversation log is
\* immediately followed by a user-role function-result entry for the same
\* tool name; a function call may be the last entry only while its result
\* is still awaited.
C1_CallFollowedByResult ==
    \A i \in 1..Len(content_history) :
        IsFunctionCall(content_history[i]) =>
            \/ i = Len(content_history)
            \/ /\ content_history[i + 1].role = "user"
               /\ content_history[i + 1].kind = "function_response"
               /\ content_history[i + 1].name = content_history[i].name

\* C2: a call of a decorated operation whose every attempt raised a
\* recoverable fault ends by returning (never by raising) the
\* "failed after N attempts" string that names the operation and
\* N = max_retries, after exactly N attempts.
C2_RetryBound ==
    (/\ Completed
     /\ sig.fr.outcomes # <<>>
     /\ \A i \in 1..Len(sig.fr.outcomes) : sig.fr.outcomes[i] = "rec")
    => /\ sig.k = "ret"
       /\ sig.fr.attempts = sig.fr.max_retries
       /\ sig.v.t = "str"
       /\ Len(sig.v.msg) >= 3
       /\ SubSeq(sig.v.msg, 1, 3) =
             <<sig.fr.func, "failed after", sig.fr.max_retries>>

\* C3: a transient transport fault raised by a tool invocation never
\* leaves chat_loop: the driver does not pass it on to main.
C3_ToolFaultStaysInDriver ==
    ~(/\ sig.k = "exc"
      /\ sig.origin = "call_tool"
      /\ sig.e \in connection_errors
      /\ sig.src \in {"chat_loop", "main"})

\* C4: when a failure of connect reaches its caller, as an exception out
\* of connect or as the failure string the decorated connect returns,
\* the stream field and the session field are both empty.
C4_FailedConnectDisconnected ==
    (\/ sig.k = "exc" /\ sig.src = "connect"
     \/ /\ Completed
        /\ sig.fr.func = "connect"
        /\ sig.k = "exc" \/ IsFailureString(sig.v))
    => sse_stream = None /\ mcp_session = None

\* C5: once cleanup has attempted the teardown and the release raised, no
\* handle is held: the stream field and the session field are empty.
C5_CleanupClearsOnRaise ==
    (sig.k = "exc" /\ sig.origin = "cleanup")
    => sse_stream = None /\ mcp_session = None

\* C6: when the reconnect made after a recoverable fault fails (connect
\* returns a failure string or raises), the wrapper stops at once with the
\* "Reconnect failed" result: no activation goes on after a failed
\* reconnect, it has not slept for it and has made no further attempt.
C6_FailedReconnectStops ==
    /\ \A i \in WrapperFrames : stack[i].lastRecon # "failed"
    /\ (Completed /\ sig.fr.lastRecon \in {"failed", "raised"})
       => /\ sig.k = "ret"
          /\ sig.v = ReconnectFailed(sig.fr.func)
          /\ sig.fr.sleeps = sig.fr.reconnects - 1
          /\ sig.fr.attempts = sig.fr.reconnects

\* C7: an attempt that raises an error outside the recoverable set ends
\* the call at once: the wrapper returns (does not raise) the
\* "Error processing" string with the operation name and the error, and
\* it reconnects, sleeps and attempts no more for that error.
C7_NonRecoverableStops ==
    /\ \A i \in WrapperFrames :
          \A j \in 1..Len(stack[i].outcomes) :
             stack[i].outcomes[j] # "other"
    /\ (/\ Completed
        /\ sig.fr.outcomes # <<>>
        /\ Last(sig.fr.outcomes) = "other")
       => /\ sig.k = "ret"
          /\ sig.v.t = "str"
          /\ Len(sig.v.msg) = 3
          /\ sig.v.msg[1] = "Error processing"
          /\ sig.v.msg[2] = sig.fr.func
          /\ sig.v.msg[3] \notin connection_errors
          /\ sig.fr.attempts = Len(sig.fr.outcomes)
          /\ sig.fr.reconnects = sig.fr.attempts - 1
          /\ sig.fr.sleeps = sig.fr.attempts - 1
          /\ sig.fr.retries = sig.fr.attempts - 1

\* C7 witness: a call of a decorated operation ended on a non-recoverable
\* error raised by its second attempt.
C7_Witness ==
    /\ Completed
    /\ sig.k = "ret"
    /\ sig.fr.func = "op"
    /\ sig.fr.outcomes = <<"rec", "other">>
    /\ sig.v = ErrorProcessing("op", "RuntimeError")

\* C8: when the first attempt raises a recoverable fault, the reconnect
\* returns True and the second attempt succeeds, the wrapper returns the
\* operation's result after exactly two attempts and one reconnect; after
\* a reconnect that worked the second attempt is always made, and no
\* activation goes on after a successful attempt.
C8_ReconnectThenSucceed ==
    /\ \A i \in WrapperFrames :
          \A j \in 1..Len(stack[i].outcomes) : stack[i].outcomes[j] # "ok"
    /\ (/\ Completed
        /\ sig.fr.max_retries > 1
        /\ sig.fr.lastRecon = "True"
        /\ sig.fr.outcomes # <<>>
        /\ sig.fr.outcomes[1] = "rec")
       => Len(sig.fr.outcomes) >= 2
    /\ (/\ Completed
        /\ Len(sig.fr.outcomes) >= 2
        /\ sig.fr.outcomes[1] = "rec"
        /\ sig.fr.outcomes[2] = "ok"
        /\ sig.fr.lastRecon = "True")
       => /\ sig.k = "ret"
          /\ sig.v = SuccessValue(sig.fr.func)
          /\ sig.fr.outcomes = <<"rec", "ok">>
          /\ sig.fr.attempts = 2
          /\ sig.fr.reconnects = 1
          /\ sig.fr.sleeps = 1

\* C8 witness: a decorated operation other than connect returned its
\* result on the second attempt, after one reconnect that returned True.
C8_Witness ==
    /\ Completed
    /\ sig.k = "ret"
    /\ sig.fr.func = "op"
    /\ sig.fr.outcomes = <<"rec", "ok">>
    /\ sig.fr.lastRecon = "True"
    /\ sig.v = OpResult

\* C9: list_tools or call_tool requested while no session is held fails
\* with an error of the recoverable class.
C9_NotConnectedIsRecoverable ==
    (/\ sig.k = "exc"
     /\ sig.src = "process"
     /\ sig.origin \in {"list_tools", "call_tool"}
     /\ mcp_session = None)
    => sig.e \in connection_errors

\* C10: when the initial connect ends in a failure (the decorated connect
\* returns a failure string), main never enters the chat loop and the
\* process exits with a non-zero status.
C10_InitialFailureExits ==
    (/\ stack # <<>>
     /\ stack[1].fn = "main"
     /\ stack[1].connect_failed)
    => /\ stack[1].pc # "in_chat"
       /\ exit_code # "0"

\* C11: a request-too-large (code 400) failure of the model call aborts
\* only the current query: chat_loop does not pass the error on, it goes on
\* to read the next query.
C11_TokenLimitStaysInDriver ==
    ~(/\ sig.k = "exc"
      /\ sig.origin = "generate_400"
      /\ sig.src \in {"chat_loop", "main"})

\* Remote invocations of the tool named n, and function-call log entries
\* naming it.
InvokedAs(n) == {i \in 1..Len(invocations) : invocations[i].name = n}
CalledAs(n) ==
    {i \in 1..Len(content_history) :
        /\ content_history[i].kind = "function_call"
        /\ content_history[i].name = n}

\* Function calls that are logged and whose remote invocation is still to
\* be made: the one of a per-query loop standing right before call_tool.
PendingCalls(n) ==
    {d \in 1..Len(stack) :
        /\ stack[d].fn = "process"
        /\ stack[d].pc = "call_tool"
        /\ stack[d].parts[stack[d].idx].name = n}

\* C12 (as stated): the remote tool-invocation endpoint is never invoked
\* for the tool named "ask".
C12_AskNeverInvoked ==
    \A i \in 1..Len(invocations) : invocations[i].name # "ask"

\* C12 (amended): "ask" is invoked remotely like any other tool, once per
\* "ask" function call of the model, and before the user is prompted: the
\* remote invocations of "ask" are as many as the logged "ask" function
\* calls whose invocation is not still pending, and the loop stands at the
\* clarification prompt only right after invoking "ask".
C12_AskInvokedThenClarified ==
    /\ Cardinality(InvokedAs("ask")) + Cardinality(PendingCalls("ask"))
         = Cardinality(CalledAs("ask"))
    /\ \A d \in 1..Len(stack) :
          (stack[d].fn = "process" /\ stack[d].pc = "ask")
             => /\ invocations # <<>>
                /\ Last(invocations).name = "ask"
                /\ Last(invocations).args = stack[d].parts[stack[d].idx].args
                /\ Last(invocations).result \in ToolResults

C12_Witness ==
    /\ Running("process", "ask")
    /\ InvokedAs("ask") # {}

\* C13: connect called while a handle is held first tears the prior handle
\* down completely and only then opens the new stream and session: there is
\* never more than one open stream or session, the new stream is opened with
\* nothing held and every field cleared, the new session is opened with only
\* the new stream held, and the handle is initialized with exactly the new
\* stream and session held.
C13_TeardownThenEstablish ==
    /\ live.stream <= 1
    /\ live.session <= 1
    /\ \A d \in 1..Len(stack) :
          stack[d].fn = "connect" =>
             /\ stack[d].pc = "open_stream" =>
                   /\ live = NoLive
                   /\ exit_stack = <<>>
                   /\ sse_stream_context = None
                   /\ sse_stream = None
                   /\ mcp_session_context = None
                   /\ mcp_session = None
             /\ stack[d].pc = "open_session" =>
                   /\ live = [stream |-> 1, session |-> 0]
                   /\ exit_stack = <<"stream">>
                   /\ mcp_session = None
             /\ stack[d].pc = "initialize" =>
                   /\ live = [stream |-> 1, session |-> 1]
                   /\ exit_stack = <<"stream", "session">>

C13_Witness ==
    /\ Running("connect", "initialize")
    /\ Top.prior
    /\ Connected

\* C14: final cleanup is executed on every way out of main, and
\* end-of-input or an interrupt ends the driver loop without an error: the
\* process has ended only with cleanup run, and chat_loop never passes an
\* EOFError or a KeyboardInterrupt on to main.
C14_CleanupAndCleanExit ==
    /\ exit_code # "running" => stop_event /\ live = NoLive
    /\ ~(/\ sig.k = "exc"
         /\ sig.src = "chat_loop"
         /\ sig.e \in {"EOFError", "KeyboardInterrupt"})

\* Per-query loops that have worked through a first model response made of
\* a single function-call part and are back at the model call.
SingleCallDone ==
    {d \in 1..Len(stack) :
        /\ stack[d].fn = "process"
        /\ stack[d].pc = "generate"
        /\ stack[d].responses = 1
        /\ Len(stack[d].parts) = 1
        /\ stack[d].parts[1].kind = "function_call"}

\* What C15 says of such a loop f: since its start the log has gained
\* exactly user(query), model(function call), user(function result r), the
\* nudge, and the remote endpoint has been invoked exactly once, with the
\* part's name and arguments, returning r.
CallRoundLogged(f) ==
    /\ Len(invocations) = f.inv0 + 1
    /\ Last(invocations).name = f.parts[1].name
    /\ Last(invocations).args = f.parts[1].args
    /\ Last(invocations).result = tool_result(f.parts[1].name)
    /\ content_history =
          SubSeq(content_history, 1, f.base)
             \o <<TextEntry("user", f.query),
                  FunctionCallEntry(f.parts[1]),
                  FunctionResponseEntry(f.parts[1].name,
                                        Last(invocations).result),
                  Nudge>>

\* C15 (as stated): for a query whose first model response is a single
\* function-call part (t, a) and a tool returning r, the log gains, in
\* order and with nothing in between, user(query), model(function-call t),
\* user(function-result r for t), the nudge; and the remote invoke has been
\* called exactly once, with (t, a), when the nudge is appended.
C15_CallRoundAnyTool ==
    \A d \in SingleCallDone : CallRoundLogged(stack[d])

\* C15 (amended): the same for every tool t other than "ask"; for "ask" the
\* user's answer is logged between the function result and the nudge.
C15_CallRoundOtherThanAsk ==
    \A d \in SingleCallDone :
       IF stack[d].parts[1].name # "ask"
       THEN CallRoundLogged(stack[d])
       ELSE /\ Len(invocations) = stack[d].inv0 + 1
            /\ Last(invocations).name = "ask"
            /\ Len(content_history) = stack[d].base + 5
            /\ content_history[stack[d].base + 3].kind = "function_response"
            /\ content_history[stack[d].base + 4].kind = "text"
            /\ content_history[stack[d].base + 4].role = "user"
            /\ Last(content_history) = Nudge

C15_Witness ==
    /\ Running("process", "generate")
    /\ Len(stack) \in SingleCallDone
    /\ Top.parts[1].name = "list_dir"
    /\ Top.query = <<"l", "s">>
    /\ Last(content_history) = Nudge

\* C16: a text part whose trimmed content is empty produces no log entry:
\* the step that processes such a part leaves the conversation log as it is.
C16_EmptyTextSkipped ==
    [][(/\ Running("process", "part")
        /\ Top.parts[Top.idx].kind = "text"
        /\ Strip(Top.parts[Top.idx].text) = <<>>)
          => content_history' = content_history]_vars

\* A per-query loop has gone past a text part made of blanks only, with
\* nothing but the query logged since it started.
C16_Witness ==
    /\ Running("process", "part")
    /\ Top.idx = 2
    /\ Top.parts[1].kind = "text"
    /\ Top.parts[1].text = <<" ">>
    /\ Top.responses = 1
    /\ Len(content_history) = Top.base + 1

\* C17: calling cleanup twice in succession ends in the state the first
\* call ended in, which is Disconnected with every field empty and nothing
\* held, and the second call raises no error.
C17_CleanupIdempotent ==
    \A d \in 1..Len(stack) :
       (stack[d].fn = "harness" /\ stack[d].cleanups = 2) =>
          /\ ~stack[d].raised2
          /\ sse_stream = None
          /\ mcp_session = None
          /\ sse_stream_context = None
          /\ mcp_session_context = None
          /\ live = NoLive
          /\ stack[d].first =
                TransportState(sse_stream_context, sse_stream,
                               mcp_session_context, mcp_session,
                               exit_stack, live)

\* C18: a first candidate with no content is a non-fatal malformed turn,
\* like one whose content has zero parts: the loop raises no error for it
\* and goes on to call the model again.
C18_NoContentNotFatal ==
    ~(sig.k = "exc" /\ sig.origin = "no_content")

\* Nudge entries among the entries of log from position from + 1 on.
NudgesAdded(log, from) ==
    Cardinality({i \in (from + 1)..Len(log) : log[i] = Nudge})

\* C19: in a round whose candidate has at least one part, the nudge is
\* appended once, after all parts have been processed, whatever their kinds:
\* a step that handles a part other than the last one appends no nudge, and
\* the step that ends the handling of the last part appends exactly one, as
\* the last entry of the log.
C19_OneNudgePerRound ==
    [][(/\ stack # <<>>
        /\ sig.k = "run"
        /\ Top.fn = "process"
        /\ Top.pc \in {"part", "call_tool", "ask"}
        /\ sig' = Run
        /\ Len(stack') = Len(stack)
        /\ stack'[Len(stack')].pc \in {"part", "generate"})
          => IF stack'[Len(stack')].pc = "part"
             THEN NudgesAdded(content_history', Len(content_history)) = 0
             ELSE /\ NudgesAdded(content_history', Len(content_history)) = 1
                  /\ Last(content_history') = Nudge]_vars

\* C20: the per-query loop has no normal exit: a call of it returns only
\* for an empty query, so the driver is back at its prompt, after a query
\* it has submitted, only when that query was empty; a non-empty query
\* ends only by an error.
C20_NoNormalExit ==
    /\ (sig.k = "ret" /\ sig.src = "process") => sig.fr.query = <<>>
    /\ \A d \in 1..Len(stack) :
          (stack[d].fn = "chat_loop" /\ stack[d].pc = "prompt")
             => stack[d].query = <<>>

\* The loop is at the model call again after at least two model responses
\* to a non-empty query, every call so far having succeeded, and the driver
\* is still waiting for it.
C20_Witness ==
    /\ Running("process", "generate")
    /\ Top.query # <<>>
    /\ Top.responses = 2
    /\ Len(content_history) >= Top.base + 3
    /\ Len(stack) >= 2
    /\ stack[Len(stack) - 1].fn = "chat_loop"
    /\ stack[Len(stack) - 1].pc = "in_process"

====
